---- MODULE Spec2Model ----
(***************************************************************************)
(* Model of src/challenge.ts: the CSV-to-SQLite loader.                     *)
(*                                                                         *)
(* extractAndLoadData downloads and extracts the dump, then calls          *)
(* createTableFromCsv for "customers" and then for "organizations".        *)
(* createTableFromCsv runs getCsvStructure (a first pass over the file),   *)
(* issues a create-table request, then opens a second stream over the      *)
(* file whose 'data' / 'end' callbacks hand batches of BatchSize rows to   *)
(* batchInsert without awaiting them, and returns.                         *)
(*                                                                         *)
(* Each action below is one callback of the Node event loop (a stream      *)
(* event, the completion of a database request) together with the promise  *)
(* continuations that run before the next callback.                        *)
(***************************************************************************)
EXTENDS Integers, Sequences, FiniteSets, TLC

\* ---------------------------------------------------------------- constants
BatchSize == 100

\* ------------------------------------------------------------------- bounds
\* customers.csv holds k full batches and 0 or 1 more rows, k <= MaxFullBatches,
\* or one row short of a batch
MaxFullBatches == 2
\* organizations.csv holds at most this many rows
MaxOrgRows == 1
\* rows of customers.csv when the cell values are varied (SpecValues)
MaxValueRows == 2

Tables == {"customers", "organizations"}
Columns == <<"id", "ts">>
ColumnSet == {Columns[i] : i \in 1..Len(Columns)}

NoBad == -1
NotLogged == -1
Null == "null"

\* ------------------------------------------------------------- cell values
\* The sample cell texts and their characters.
CellChars ==
  [v \in {"42", "-7", "2024", "2024-01-05", "abc", "-", ""} |->
     CASE v = "42" -> <<"4", "2">>
       [] v = "-7" -> <<"-", "7">>
       [] v = "2024" -> <<"2", "0", "2", "4">>
       [] v = "2024-01-05" -> <<"2", "0", "2", "4", "-", "0", "1", "-", "0", "5">>
       [] v = "abc" -> <<"a", "b", "c">>
       [] v = "-" -> <<"-">>
       [] OTHER -> <<>>]

CellValues == DOMAIN CellChars

Digits == {"0", "1", "2", "3", "4", "5", "6", "7", "8", "9"}

\* /^-?\d+$/.test(value)
IntegerPattern(value) ==
  LET cs == CellChars[value]
      body == IF cs # <<>> /\ Head(cs) = "-" THEN Tail(cs) ELSE cs
  IN  /\ Len(body) >= 1
      /\ \A i \in 1..Len(body) : body[i] \in Digits

\* !isNaN(Date.parse(value)) for the sample texts: ISO year and ISO date
\* forms parse, free text, a lone minus and the empty string give NaN.  The result for
\* "42" and "-7" is implementation-defined and is never consulted, since
\* the integer test is applied first.
DateParses(value) == value \in {"2024", "2024-01-05"}

\* the tests of lines 78-84 with the date test applied first
InferType_DateFirst(value) ==
  IF DateParses(value) THEN "datetime"
  ELSE IF IntegerPattern(value) THEN "integer"
  ELSE "string"

\* lines 78-84: the type given to one cell
InferType(value) ==
  IF IntegerPattern(value) THEN "integer"
  ELSE IF DateParses(value) THEN "datetime"
  ELSE "string"

\* lines 125-131: the storage column type for an inferred type
ColumnType(dataType) ==
  IF dataType = "integer" THEN "integer"
  ELSE IF dataType = "datetime" THEN "dateTime"
  ELSE "string"

\* ------------------------------------------------------------------ sources
\* A CSV file: n data rows; bad is NoBad, or 0 when the header is rejected
\* by the parser (duplicate column names), or the index of the first data
\* row the parser rejects (column count mismatch).  The first data row has
\* the cell values `first`, every later row the cell values `later`.
Row(t, i) == [tbl |-> t, idx |-> i]

DefaultFirst == [c \in ColumnSet |-> IF c = "id" THEN "42" ELSE "2024-01-05"]
DefaultLater == [c \in ColumnSet |-> "abc"]

BadChoices(n) == {b \in {NoBad, 0, 1, n} : b <= n}

SourcesOf(counts, firsts, laters) ==
  UNION {{[n |-> n, bad |-> b, first |-> f, later |-> l] :
            b \in BadChoices(n), f \in firsts, l \in laters} : n \in counts}

CustomerCounts ==
  {k * BatchSize + r : k \in 0..MaxFullBatches, r \in 0..1} \cup {BatchSize - 1}

CustomerSources == SourcesOf(CustomerCounts, {DefaultFirst}, {DefaultLater})
\* organizations.csv is well-formed: parser errors are exercised on customers
OrgSources ==
  {s \in SourcesOf(0..MaxOrgRows, {DefaultFirst}, {DefaultLater}) : s.bad = NoBad}

\* sources whose cell values vary: any first row, later rows uniform
UniformRows == {[c \in ColumnSet |-> v] : v \in CellValues}
ValueSources ==
  {s \in SourcesOf(1..MaxValueRows, [ColumnSet -> CellValues], UniformRows) :
     s.bad \in {NoBad, s.n}}

\* the parsed object of data row i of a source (headers: true)
RowValues(s, i) == IF i = 1 THEN s.first ELSE s.later

\* -------------------------------------------------------------------- state
VARIABLES
  src,          \* [Tables -> source]: the extracted CSV files
  orch,         \* position of extractAndLoadData
  reported,     \* what the orchestrator logged for each table
  phase,        \* position of each createTableFromCsv call
  promise,      \* state of the promise each createTableFromCsv call returned
  error,        \* the reason a load's promise was rejected with
  inferPos,     \* rows delivered so far by getCsvStructure's stream
  csvStructure, \* the csvStructure object of each getCsvStructure call
  conn,         \* the knex instance `db` of each load
  ddlReq,       \* create-table requests sent to the database, per table
  db,           \* the database file: per table, exists / schema / rows
  pos,          \* rows delivered so far by dataStream
  rowCount,     \* the rowCount variable of each load
  batch,        \* the batch variable of each load
  inserts,      \* the batchInsert calls of each load, in call order
  completed,    \* indices of the inserts that have finished, in finish order
  ended,        \* dataStream's 'end' callback has run
  loggedRows,   \* the count printed by "Inserted N rows into T table."
  uncaught      \* the table whose stream emitted an 'error' with no listener

vars == <<src, orch, reported, phase, promise, error, inferPos, csvStructure,
          conn, ddlReq, db, pos, rowCount, batch, inserts, completed, ended,
          loggedRows, uncaught>>

EmptyStructure == [hasColumns |-> FALSE, columns |-> <<>>, types |-> <<>>]

\* a table left in ./out/database.sqlite by an earlier run
PrevSchema == [c \in ColumnSet |-> "string"]
PrevRows(t) == <<Row(t, 0)>>
AbsentTable == [exists |-> FALSE, schema |-> <<>>, rows |-> <<>>]
PresentTable(t) == [exists |-> TRUE, schema |-> PrevSchema, rows |-> PrevRows(t)]

InitLoads ==
  /\ orch = "prep"
  /\ reported = [t \in Tables |-> "none"]
  /\ phase = [t \in Tables |-> "idle"]
  /\ promise = [t \in Tables |-> "none"]
  /\ error = [t \in Tables |-> "none"]
  /\ inferPos = [t \in Tables |-> 0]
  /\ csvStructure = [t \in Tables |-> EmptyStructure]
  /\ conn = [t \in Tables |-> "none"]
  /\ ddlReq = [t \in Tables |-> 0]
  /\ \E present \in SUBSET Tables :
       db = [t \in Tables |-> IF t \in present THEN PresentTable(t) ELSE AbsentTable]
  /\ pos = [t \in Tables |-> 0]
  /\ rowCount = [t \in Tables |-> 0]
  /\ batch = [t \in Tables |-> <<>>]
  /\ inserts = [t \in Tables |-> <<>>]
  /\ completed = [t \in Tables |-> <<>>]
  /\ ended = [t \in Tables |-> FALSE]
  /\ loggedRows = [t \in Tables |-> NotLogged]
  /\ uncaught = "none"

Init ==
  /\ \E c \in CustomerSources, o \in OrgSources :
       src = [t \in Tables |-> IF t = "customers" THEN c ELSE o]
  /\ InitLoads

InitValues ==
  /\ \E c \in ValueSources :
       src = [t \in Tables |->
                IF t = "customers" THEN c
                ELSE [n |-> 1, bad |-> NoBad, first |-> DefaultFirst, later |-> DefaultLater]]
  /\ InitLoads
  /\ \A t \in Tables : ~db[t].exists

\* ------------------------------------------------------- getCsvStructure
\* the 'data' callback without the test of line 76: every row re-types
OnStructureRow_Reinfers(cs, row) ==
  [hasColumns |-> TRUE, columns |-> Columns,
   types |-> [c \in ColumnSet |-> InferType(row[c])]]

\* lines 61-91: the 'data' callback applied to one parsed row
OnStructureRow(cs, row) ==
  LET started == IF ~cs.hasColumns
                 THEN [hasColumns |-> TRUE, columns |-> Columns,
                       types |-> [c \in ColumnSet |-> Null]]
                 ELSE cs
      updatedTypes == [c \in ColumnSet |->
                         IF started.types[c] = Null
                         THEN InferType(row[c])
                         ELSE started.types[c]]
  IN  [started EXCEPT !.types = updatedTypes]

\* an 'error' event with no listener is thrown as an uncaught exception,
\* which ends the Node process: no callback runs afterwards
Exited == uncaught # "none"
Alive == ~Exited

\* continuations of awaited promises run before the next I/O callback
NoPendingContinuation ==
  \A t \in Tables : promise[t] \in {"fulfilled", "rejected"} => reported[t] # "none"

Reject(t, reason) ==
  /\ promise' = [promise EXCEPT ![t] = "rejected"]
  /\ error' = [error EXCEPT ![t] = reason]
  /\ phase' = [phase EXCEPT ![t] = "failed"]

\* line 61: a row arrives on getCsvStructure's stream
StructureData(t) ==
  /\ phase[t] = "infer"
  /\ Alive
  /\ NoPendingContinuation
  /\ inferPos[t] < src[t].n
  /\ src[t].bad \notin {0, inferPos[t] + 1}
  /\ inferPos' = [inferPos EXCEPT ![t] = @ + 1]
  /\ csvStructure' = [csvStructure EXCEPT
                        ![t] = OnStructureRow(@, RowValues(src[t], inferPos[t] + 1))]
  /\ UNCHANGED <<uncaught, src, orch, reported, phase, promise, error, conn, ddlReq, db,
                 pos, rowCount, batch, inserts, completed, ended, loggedRows>>

\* lines 95-97 and 109: the parser reports an error; the load rejects
StructureError(t) ==
  /\ phase[t] = "infer"
  /\ Alive
  /\ NoPendingContinuation
  /\ src[t].bad \in {0, inferPos[t] + 1}
  /\ Reject(t, "ParseError")
  /\ UNCHANGED <<uncaught, src, orch, reported, inferPos, csvStructure, conn, ddlReq, db,
                 pos, rowCount, batch, inserts, completed, ended, loggedRows>>

\* the first pass resolving on a row instead of at the end of the stream
StructureEnd_Early(t) ==
  /\ phase[t] = "infer"
  /\ Alive
  /\ NoPendingContinuation
  /\ src[t].bad = NoBad
  /\ csvStructure[t].hasColumns
  /\ conn' = [conn EXCEPT ![t] = "open"]
  /\ phase' = [phase EXCEPT ![t] = "ddl"]
  /\ ddlReq' = [ddlReq EXCEPT ![t] = @ + 1]
  /\ UNCHANGED <<uncaught, src, orch, reported, promise, error, inferPos, csvStructure, db,
                 pos, rowCount, batch, inserts, completed, ended, loggedRows>>

\* lines 59-60: the file stream of the first pass fails to read; the
\* 'error' listener of line 95 is on the parser that pipe() returns, the
\* file stream has none
StructureReadError(t) ==
  /\ phase[t] = "infer"
  /\ Alive
  /\ NoPendingContinuation
  /\ uncaught' = t
  /\ UNCHANGED <<src, orch, reported, phase, promise, error, inferPos, csvStructure,
                 conn, ddlReq, db, pos, rowCount, batch, inserts, completed, ended,
                 loggedRows>>

\* lines 92-94 and 109-133: the first pass ends; knex instance is made and
\* the create-table builder runs its callback.  With no data row,
\* csvStructure.columns is undefined and the callback throws a TypeError
\* before any statement is sent.
StructureEnd(t) ==
  /\ phase[t] = "infer"
  /\ Alive
  /\ NoPendingContinuation
  /\ src[t].bad = NoBad
  /\ inferPos[t] = src[t].n
  /\ conn' = [conn EXCEPT ![t] = "open"]
  /\ IF csvStructure[t].hasColumns
     THEN /\ phase' = [phase EXCEPT ![t] = "ddl"]
          /\ ddlReq' = [ddlReq EXCEPT ![t] = @ + 1]
          /\ UNCHANGED <<promise, error>>
     ELSE /\ Reject(t, "TypeError")
          /\ UNCHANGED ddlReq
  /\ UNCHANGED <<uncaught, src, orch, reported, inferPos, csvStructure, db,
                 pos, rowCount, batch, inserts, completed, ended, loggedRows>>

\* ---------------------------------------------------- createTableFromCsv
\* a failed create-table request that is logged and not rethrown
CreateTableFails_Continues(t) ==
  /\ phase[t] = "ddl"
  /\ Alive
  /\ NoPendingContinuation
  /\ error' = [error EXCEPT ![t] = IF db[t].exists THEN "TableAlreadyExists" ELSE "DdlError"]
  /\ phase' = [phase EXCEPT ![t] = "stream"]
  /\ promise' = [promise EXCEPT ![t] = "fulfilled"]
  /\ UNCHANGED <<uncaught, src, orch, reported, inferPos, csvStructure, conn, ddlReq, db,
                 pos, rowCount, batch, inserts, completed, ended, loggedRows>>

\* lines 121-133: the create-table request fails (the table exists, or the
\* database reports another error); the await throws and the load rejects
CreateTableFails(t) ==
  /\ phase[t] = "ddl"
  /\ Alive
  /\ NoPendingContinuation
  /\ Reject(t, IF db[t].exists THEN "TableAlreadyExists" ELSE "DdlError")
  /\ UNCHANGED <<uncaught, src, orch, reported, inferPos, csvStructure, conn, ddlReq, db,
                 pos, rowCount, batch, inserts, completed, ended, loggedRows>>

\* the create-table step followed by the db.destroy() of lines 172-178
CreateTableOk_Destroys(t) ==
  /\ phase[t] = "ddl"
  /\ Alive
  /\ NoPendingContinuation
  /\ ~db[t].exists
  /\ db' = [db EXCEPT ![t] =
              [exists |-> TRUE,
               schema |-> [c \in ColumnSet |-> ColumnType(csvStructure[t].types[c])],
               rows |-> <<>>]]
  /\ phase' = [phase EXCEPT ![t] = "stream"]
  /\ promise' = [promise EXCEPT ![t] = "fulfilled"]
  /\ conn' = [conn EXCEPT ![t] = "closed"]
  /\ UNCHANGED <<uncaught, src, orch, reported, error, inferPos, csvStructure, ddlReq,
                 pos, rowCount, batch, inserts, completed, ended, loggedRows>>

\* a create-table step that replaces a table that already exists
CreateTableOk_Overwrites(t) ==
  /\ phase[t] = "ddl"
  /\ Alive
  /\ NoPendingContinuation
  /\ db' = [db EXCEPT ![t] =
              [exists |-> TRUE,
               schema |-> [c \in ColumnSet |-> ColumnType(csvStructure[t].types[c])],
               rows |-> <<>>]]
  /\ phase' = [phase EXCEPT ![t] = "stream"]
  /\ promise' = [promise EXCEPT ![t] = "fulfilled"]
  /\ UNCHANGED <<uncaught, src, orch, reported, error, inferPos, csvStructure, conn, ddlReq,
                 pos, rowCount, batch, inserts, completed, ended, loggedRows>>

\* lines 121-169: the table is created; dataStream is opened, the callbacks
\* are registered and the function returns, fulfilling its promise
CreateTableOk(t) ==
  /\ phase[t] = "ddl"
  /\ Alive
  /\ NoPendingContinuation
  /\ ~db[t].exists
  /\ db' = [db EXCEPT ![t] =
              [exists |-> TRUE,
               schema |-> [c \in ColumnSet |-> ColumnType(csvStructure[t].types[c])],
               rows |-> <<>>]]
  /\ phase' = [phase EXCEPT ![t] = "stream"]
  /\ promise' = [promise EXCEPT ![t] = "fulfilled"]
  /\ UNCHANGED <<uncaught, src, orch, reported, error, inferPos, csvStructure, conn, ddlReq,
                 pos, rowCount, batch, inserts, completed, ended, loggedRows>>

\* lines 136-169: a stream of the insert pass emits 'error' mid-stream;
\* only 'data' and 'end' listeners are registered on dataStream
DataStreamError(t) ==
  /\ phase[t] = "stream"
  /\ Alive
  /\ NoPendingContinuation
  /\ ~ended[t]
  /\ uncaught' = t
  /\ UNCHANGED <<src, orch, reported, phase, promise, error, inferPos, csvStructure,
                 conn, ddlReq, db, pos, rowCount, batch, inserts, completed, ended,
                 loggedRows>>

\* lines 141-143: batchInsert(rows) sends one insert request
BatchInsert(calls, rows) == Append(calls, [rows |-> rows, status |-> "pending"])

\* the 'data' callback without the `batch = []` of line 159
OnData_KeepsBatch(t) ==
  /\ phase[t] = "stream"
  /\ Alive
  /\ NoPendingContinuation
  /\ ~ended[t]
  /\ pos[t] < src[t].n
  /\ pos' = [pos EXCEPT ![t] = @ + 1]
  /\ rowCount' = [rowCount EXCEPT ![t] = @ + 1]
  /\ LET pushed == Append(batch[t], Row(t, pos[t] + 1))
     IN  /\ batch' = [batch EXCEPT ![t] = pushed]
         /\ inserts' = [inserts EXCEPT ![t] =
                          IF Len(pushed) = BatchSize THEN BatchInsert(@, pushed) ELSE @]
  /\ UNCHANGED <<uncaught, src, orch, reported, phase, promise, error, inferPos, csvStructure,
                 conn, ddlReq, db, completed, ended, loggedRows>>

\* the 'data' callback with rowCount and batch declared at module level,
\* one accumulator and one counter for every load
OnData_SharedState(t) ==
  /\ phase[t] = "stream"
  /\ Alive
  /\ NoPendingContinuation
  /\ ~ended[t]
  /\ pos[t] < src[t].n
  /\ pos' = [pos EXCEPT ![t] = @ + 1]
  /\ rowCount' = [rowCount EXCEPT !["customers"] = @ + 1]
  /\ LET pushed == Append(batch["customers"], Row(t, pos[t] + 1))
     IN  IF Len(pushed) = BatchSize
         THEN /\ inserts' = [inserts EXCEPT ![t] = BatchInsert(@, pushed)]
              /\ batch' = [batch EXCEPT !["customers"] = <<>>]
         ELSE /\ batch' = [batch EXCEPT !["customers"] = pushed]
              /\ UNCHANGED inserts
  /\ UNCHANGED <<uncaught, src, orch, reported, phase, promise, error, inferPos, csvStructure,
                 conn, ddlReq, db, completed, ended, loggedRows>>

\* lines 153-161: a row arrives on dataStream
OnData(t) ==
  /\ phase[t] = "stream"
  /\ Alive
  /\ NoPendingContinuation
  /\ ~ended[t]
  /\ pos[t] < src[t].n
  /\ pos' = [pos EXCEPT ![t] = @ + 1]
  /\ rowCount' = [rowCount EXCEPT ![t] = @ + 1]
  /\ LET pushed == Append(batch[t], Row(t, pos[t] + 1))
     IN  IF Len(pushed) = BatchSize
         THEN /\ inserts' = [inserts EXCEPT ![t] = BatchInsert(@, pushed)]
              /\ batch' = [batch EXCEPT ![t] = <<>>]
         ELSE /\ batch' = [batch EXCEPT ![t] = pushed]
              /\ UNCHANGED inserts
  /\ UNCHANGED <<uncaught, src, orch, reported, phase, promise, error, inferPos, csvStructure,
                 conn, ddlReq, db, completed, ended, loggedRows>>

\* the 'end' callback without the flush of lines 165-167
OnEnd_DropsTrailing(t) ==
  /\ phase[t] = "stream"
  /\ Alive
  /\ NoPendingContinuation
  /\ ~ended[t]
  /\ pos[t] = src[t].n
  /\ ended' = [ended EXCEPT ![t] = TRUE]
  /\ loggedRows' = [loggedRows EXCEPT ![t] = rowCount[t]]
  /\ UNCHANGED <<uncaught, src, orch, reported, phase, promise, error, inferPos, csvStructure,
                 conn, ddlReq, db, pos, rowCount, batch, inserts, completed>>

\* lines 164-169: dataStream ends
OnEnd(t) ==
  /\ phase[t] = "stream"
  /\ Alive
  /\ NoPendingContinuation
  /\ ~ended[t]
  /\ pos[t] = src[t].n
  /\ ended' = [ended EXCEPT ![t] = TRUE]
  /\ inserts' = [inserts EXCEPT ![t] =
                   IF Len(batch[t]) > 0 THEN BatchInsert(@, batch[t]) ELSE @]
  /\ loggedRows' = [loggedRows EXCEPT ![t] = rowCount[t]]
  /\ UNCHANGED <<uncaught, src, orch, reported, phase, promise, error, inferPos, csvStructure,
                 conn, ddlReq, db, pos, rowCount, batch, completed>>

\* line 143: the insert request of call k succeeds; its rows are in the table
InsertOk(t, k) ==
  /\ Alive
  /\ NoPendingContinuation
  /\ k \in 1..Len(inserts[t])
  /\ inserts[t][k].status = "pending"
  /\ inserts' = [inserts EXCEPT ![t][k].status = "ok"]
  /\ db' = [db EXCEPT ![t].rows = @ \o inserts[t][k].rows]
  /\ completed' = [completed EXCEPT ![t] = Append(@, k)]
  /\ UNCHANGED <<uncaught, src, orch, reported, phase, promise, error, inferPos, csvStructure,
                 conn, ddlReq, pos, rowCount, batch, ended, loggedRows>>

\* a failed insert that destroys dataStream instead of being swallowed
InsertFails_Aborts(t, k) ==
  /\ Alive
  /\ NoPendingContinuation
  /\ k \in 1..Len(inserts[t])
  /\ inserts[t][k].status = "pending"
  /\ inserts' = [inserts EXCEPT ![t][k].status = "failed"]
  /\ completed' = [completed EXCEPT ![t] = Append(@, k)]
  /\ ended' = [ended EXCEPT ![t] = TRUE]
  /\ UNCHANGED <<uncaught, src, orch, reported, phase, promise, error, inferPos, csvStructure,
                 conn, ddlReq, db, pos, rowCount, batch, loggedRows>>

\* batchInsert without its try/catch: the failure becomes the load's
InsertFails_Rejects(t, k) ==
  /\ Alive
  /\ NoPendingContinuation
  /\ k \in 1..Len(inserts[t])
  /\ inserts[t][k].status = "pending"
  /\ inserts' = [inserts EXCEPT ![t][k].status = "failed"]
  /\ completed' = [completed EXCEPT ![t] = Append(@, k)]
  /\ promise' = [promise EXCEPT ![t] = "rejected"]
  /\ error' = [error EXCEPT ![t] = "BatchInsertError"]
  /\ reported' = [reported EXCEPT ![t] = "error"]
  /\ UNCHANGED <<uncaught, src, orch, phase, inferPos, csvStructure,
                 conn, ddlReq, db, pos, rowCount, batch, ended, loggedRows>>

\* lines 144-146: the insert request of call k fails; the error is logged
\* and swallowed
InsertFails(t, k) ==
  /\ Alive
  /\ NoPendingContinuation
  /\ k \in 1..Len(inserts[t])
  /\ inserts[t][k].status = "pending"
  /\ inserts' = [inserts EXCEPT ![t][k].status = "failed"]
  /\ completed' = [completed EXCEPT ![t] = Append(@, k)]
  /\ UNCHANGED <<uncaught, src, orch, reported, phase, promise, error, inferPos, csvStructure,
                 conn, ddlReq, db, pos, rowCount, batch, ended, loggedRows>>

\* ---------------------------------------------------- extractAndLoadData
\* line 107: a call of createTableFromCsv starts getCsvStructure's stream
BeginLoad(t) ==
  /\ phase' = [phase EXCEPT ![t] = "infer"]
  /\ promise' = [promise EXCEPT ![t] = "pending"]

\* lines 188-212 and 232-234: the download or the extraction rejects
PrepareFails ==
  /\ orch = "prep"
  /\ Alive
  /\ orch' = "aborted"
  /\ UNCHANGED <<uncaught, src, reported, phase, promise, error, inferPos, csvStructure,
                 conn, ddlReq, db, pos, rowCount, batch, inserts, completed, ended,
                 loggedRows>>

\* lines 188-215: download and extraction succeed; customers load is called
StartCustomers ==
  /\ orch = "prep"
  /\ Alive
  /\ orch' = "customers"
  /\ BeginLoad("customers")
  /\ UNCHANGED <<uncaught, src, reported, error, inferPos, csvStructure,
                 conn, ddlReq, db, pos, rowCount, batch, inserts, completed, ended,
                 loggedRows>>

Outcome(t) == IF promise[t] = "fulfilled" THEN "created" ELSE "error"

\* the customers call without its .catch: a rejection reaches the outer
\* catch of line 232 and the organizations load is never called
CustomersSettled_AbortsOnError ==
  /\ orch = "customers"
  /\ Alive
  /\ promise["customers"] \in {"fulfilled", "rejected"}
  /\ reported' = [reported EXCEPT !["customers"] = Outcome("customers")]
  /\ IF promise["customers"] = "fulfilled"
     THEN orch' = "organizations" /\ BeginLoad("organizations")
     ELSE orch' = "aborted" /\ UNCHANGED <<phase, promise>>
  /\ UNCHANGED <<uncaught, src, error, inferPos, csvStructure,
                 conn, ddlReq, db, pos, rowCount, batch, inserts, completed, ended,
                 loggedRows>>

\* lines 215-223: the customers promise settles; the outcome is logged and
\* the organizations load is called
CustomersSettled ==
  /\ orch = "customers"
  /\ Alive
  /\ promise["customers"] \in {"fulfilled", "rejected"}
  /\ reported' = [reported EXCEPT !["customers"] = Outcome("customers")]
  /\ orch' = "organizations"
  /\ BeginLoad("organizations")
  /\ UNCHANGED <<uncaught, src, error, inferPos, csvStructure,
                 conn, ddlReq, db, pos, rowCount, batch, inserts, completed, ended,
                 loggedRows>>

\* lines 223-231: the organizations promise settles; the function returns
OrganizationsSettled ==
  /\ orch = "organizations"
  /\ Alive
  /\ promise["organizations"] \in {"fulfilled", "rejected"}
  /\ reported' = [reported EXCEPT !["organizations"] = Outcome("organizations")]
  /\ orch' = "completed"
  /\ UNCHANGED <<uncaught, src, phase, promise, error, inferPos, csvStructure,
                 conn, ddlReq, db, pos, rowCount, batch, inserts, completed, ended,
                 loggedRows>>

Next ==
  \/ PrepareFails
  \/ StartCustomers
  \/ CustomersSettled
  \/ OrganizationsSettled
  \/ \E t \in Tables :
       \/ StructureData(t)
       \/ StructureError(t)
       \/ StructureReadError(t)
       \/ StructureEnd(t)
       \/ CreateTableFails(t)
       \/ CreateTableOk(t)
       \/ OnData(t)
       \/ OnEnd(t)
       \/ DataStreamError(t)
       \/ \E k \in 1..Len(inserts[t]) :
            \/ InsertOk(t, k)
            \/ InsertFails(t, k)

Spec == Init /\ [][Next]_vars

SpecValues == InitValues /\ [][Next]_vars

\* lines 238-244: the promise of processDataDump; every error is caught and
\* logged (lines 219, 227, 232, 241), so it is never rejected
JobOutcome ==
  IF orch \in {"completed", "aborted"} THEN "fulfilled" ELSE "pending"

\* ---------------------------------------------------------------- helpers
Ceil(n, d) == (n + d - 1) \div d

RECURSIVE Flatten(_)
Flatten(calls) ==
  IF calls = <<>> THEN <<>> ELSE Head(calls).rows \o Flatten(Tail(calls))

\* the data rows of table t's source, in file order
SourceRows(t) == [i \in 1..src[t].n |-> Row(t, i)]

SelectStatus(calls, status) == SelectSeq(calls, LAMBDA c : c.status = status)

AllSettled(t) == \A k \in 1..Len(inserts[t]) : inserts[t][k].status # "pending"

InFlight(t) == \E k \in 1..Len(inserts[t]) : inserts[t][k].status = "pending"

SomeInsertFailed(t) == \E k \in 1..Len(inserts[t]) : inserts[t][k].status = "failed"

\* the load of table t failed: its promise was rejected or an insert failed
TableFailed(t) == promise[t] = "rejected" \/ SomeInsertFailed(t)

\* ------------------------------------------------------------------ claims

\* C1: a load's promise is fulfilled (and the table reported as done) only
\* once dataStream has ended and every submitted batch insert has finished.
C1_CompletionWaitsForInserts ==
  \A t \in Tables :
    promise[t] = "fulfilled" => ended[t] /\ AllSettled(t)

\* C2: when the insert pass of a well-formed source of n rows has ended,
\* ceil(n / BatchSize) batches were submitted, all but the last hold
\* BatchSize rows, the last holds the remainder (BatchSize when n is a
\* positive multiple), and the batches together are the source rows 1..n,
\* each once; a source with no rows submits no batch.
C2_BatchShape ==
  \A t \in Tables :
    (src[t].bad = NoBad /\ (ended[t] \/ (src[t].n = 0 /\ phase[t] = "failed"))) =>
      LET calls == inserts[t]
          n == src[t].n
      IN  /\ Len(calls) = Ceil(n, BatchSize)
          /\ \A k \in 1..(Len(calls) - 1) : Len(calls[k].rows) = BatchSize
          /\ Len(calls) > 0 =>
               Len(calls[Len(calls)].rows) =
                 (IF n % BatchSize = 0 THEN BatchSize ELSE n % BatchSize)
          /\ Flatten(calls) = SourceRows(t)

C2_Witness ==
  \E t \in Tables :
    /\ ended[t]
    /\ src[t].n > BatchSize
    /\ src[t].n % BatchSize # 0
    /\ Len(inserts[t]) = Ceil(src[t].n, BatchSize)

\* C3: the inserts of one load finish in the order they were submitted:
\* batch k + 1 is never complete before batch k.
C3_InsertsCompleteInOrder ==
  \A t \in Tables :
    \A i, j \in 1..Len(completed[t]) :
      i < j => completed[t][i] < completed[t][j]

\* C4: the types of getCsvStructure are those of the first data row alone:
\* a column's type, once set, is never changed by a later row, and the
\* schema of the created table is the one inferred from the first row.
C4_TypesFromFirstRow ==
  /\ [](\A t \in Tables :
          /\ csvStructure[t].hasColumns =>
               csvStructure[t].types = [c \in ColumnSet |-> InferType(src[t].first[c])]
          /\ phase[t] = "stream" =>
               db[t].schema =
                 [c \in ColumnSet |-> ColumnType(InferType(src[t].first[c]))])
  /\ [][\A t \in Tables :
          csvStructure[t].hasColumns =>
            /\ csvStructure'[t].hasColumns
            /\ \A c \in ColumnSet :
                 csvStructure[t].types[c] # Null =>
                   csvStructure'[t].types[c] = csvStructure[t].types[c]]_vars

C4_Witness ==
  \E t \in Tables :
    /\ phase[t] = "stream"
    /\ inferPos[t] >= 2
    /\ \E c \in ColumnSet :
         /\ InferType(src[t].first[c]) = "integer"
         /\ InferType(src[t].later[c]) = "string"
         /\ csvStructure[t].types[c] = "integer"

\* C5: once a load with no source error has ended and all its inserts have
\* succeeded, the table holds exactly the source's rows, each once, in
\* source order.
C5_TableHoldsRowsInSourceOrder ==
  \A t \in Tables :
    (ended[t] /\ \A k \in 1..Len(inserts[t]) : inserts[t][k].status = "ok") =>
      db[t].rows = SourceRows(t)

\* C6: a failed batch insert does not stop the load: the stream is not
\* ended by the failure, and when it has ended every row of the source,
\* before and after the failed batch, was submitted in some batch.
C6_FailureDoesNotAbort ==
  \A t \in Tables :
    (\E k \in 1..Len(inserts[t]) : inserts[t][k].status = "failed") =>
      /\ phase[t] = "stream"
      /\ ended[t] => /\ pos[t] = src[t].n
                     /\ Len(inserts[t]) = Ceil(src[t].n, BatchSize)
                     /\ Flatten(inserts[t]) = SourceRows(t)

C6_Witness ==
  \E t \in Tables :
    /\ ended[t]
    /\ Len(inserts[t]) >= 3
    /\ completed[t] = <<1>>
    /\ inserts[t][1].status = "failed"

\* C7: the inserted-row count a load reports is the number of rows of the
\* batches whose insert succeeded, and is below the number of rows observed
\* when some insert failed.
C7_ReportedCountIsCommittedRows ==
  \A t \in Tables :
    (loggedRows[t] # NotLogged /\ AllSettled(t)) =>
      /\ loggedRows[t] = Len(Flatten(SelectStatus(inserts[t], "ok")))
      /\ SelectStatus(inserts[t], "failed") # <<>> => loggedRows[t] < rowCount[t]

\* C8: a source with a header and no data row fails in the inference pass
\* (before the database handle is made), and no create-table request and
\* no insert is issued for it.
C8_EmptySourceFailsAtInference ==
  \A t \in Tables :
    (src[t].n = 0 /\ src[t].bad = NoBad /\ phase[t] \notin {"idle", "infer"}) =>
      /\ phase[t] = "failed"
      /\ conn[t] = "none"
      /\ ddlReq[t] = 0
      /\ inserts[t] = <<>>

\* C9: when inference or table creation fails, the load's promise is
\* rejected and the load has read no row for insertion and issued no insert.
C9_FailureAbortsLoad ==
  \A t \in Tables :
    error[t] # "none" =>
      /\ promise[t] = "rejected"
      /\ pos[t] = 0
      /\ rowCount[t] = 0
      /\ batch[t] = <<>>
      /\ inserts[t] = <<>>
      /\ ~ended[t]

C9_Witness ==
  /\ orch = "completed"
  /\ error["customers"] = "ParseError"
  /\ src["customers"].n >= 1
  /\ error["organizations"] \in {"TableAlreadyExists", "DdlError"}
  /\ src["organizations"].n >= 1

\* C10: the stages of a load are ordered: a create-table request is sent
\* only after the inference pass has read the whole source, and a row is
\* read for insertion or a batch insert issued only after the create-table
\* request has succeeded.
C10_StagesInOrder ==
  \A t \in Tables :
    /\ ddlReq[t] > 0 =>
         /\ inferPos[t] = src[t].n
         /\ csvStructure[t].hasColumns
    /\ (pos[t] > 0 \/ inserts[t] # <<>> \/ ended[t]) =>
         /\ ddlReq[t] = 1
         /\ db[t].exists
         /\ db[t].schema = [c \in ColumnSet |-> ColumnType(csvStructure[t].types[c])]

C10_Witness ==
  \E t \in Tables :
    /\ src[t].n > BatchSize
    /\ inserts[t] # <<>>
    /\ ddlReq[t] = 1

\* C11: whatever the outcome of the customers load (rejected by an
\* inference or create-table error, or fulfilled with failing inserts), the
\* organizations load is started once that outcome is logged, and the job
\* is aborted only by the download or the extraction, never by a table.
C11_EveryTableAttempted ==
  /\ reported["customers"] # "none" => phase["organizations"] # "idle"
  /\ orch = "aborted" => \A t \in Tables : phase[t] = "idle"
  /\ orch = "completed" => \A t \in Tables : phase[t] # "idle"

C11_Witness ==
  /\ promise["customers"] = "rejected"
  /\ phase["organizations"] = "stream"
  /\ ended["organizations"]

\* C12: when the job has ended after attempting the tables, its outcome is
\* a failure exactly when some table's load failed.
C12_JobFailsIfATableFailed ==
  orch = "completed" =>
    (JobOutcome = "rejected" <=> \E t \in Tables : TableFailed(t))

\* C13: once processDataDump has returned, no connection opened by a load
\* is still open.
C13_ConnectionsClosedAtReturn ==
  JobOutcome = "fulfilled" => \A t \in Tables : conn[t] # "open"

\* C14: while a table's create-table request or one of its batch inserts
\* is in flight, the table's connection is open (it has not been closed).
C14_OpenWhileInFlight ==
  \A t \in Tables :
    (phase[t] = "ddl" \/ InFlight(t)) => conn[t] = "open"

C14_Witness ==
  \E t \in Tables :
    /\ ended[t]
    /\ Len(inserts[t]) >= 2
    /\ \A k \in 1..Len(inserts[t]) : inserts[t][k].status = "pending"
    /\ conn[t] = "open"

\* C16: a load of a table that already exists fails at the create-table
\* step with a table-already-exists error, and the existing table keeps its
\* schema and rows: no batch of that load is submitted.
C16_SecondCreationLeavesTable ==
  /\ [](\A t \in Tables :
          (db[t] = PresentTable(t) /\ ddlReq[t] > 0 /\ phase[t] # "ddl") =>
            /\ phase[t] = "failed"
            /\ error[t] = "TableAlreadyExists"
            /\ inserts[t] = <<>>)
  /\ [][\A t \in Tables :
          db[t] = PresentTable(t) => db'[t] = PresentTable(t)]_vars

C16_Witness ==
  \E t \in Tables :
    /\ db[t] = PresentTable(t)
    /\ src[t].n >= 1
    /\ error[t] = "TableAlreadyExists"
    /\ orch = "completed"

\* C20: a failed batch insert never rejects the load: the load's promise
\* stays fulfilled with no error, and the orchestrator has reported the
\* table as created, even when every insert of the table failed.
C20_InsertFailureNeverPropagates ==
  \A t \in Tables :
    SomeInsertFailed(t) =>
      /\ promise[t] = "fulfilled"
      /\ error[t] = "none"
      /\ reported[t] = "created"

C20_Witness ==
  \E t \in Tables :
    /\ ended[t]
    /\ Len(inserts[t]) >= 2
    /\ \A k \in 1..Len(inserts[t]) : inserts[t][k].status = "failed"
    /\ reported[t] = "created"

\* the sample texts made of an optional minus followed by one or more
\* digits and nothing else
IntegerTexts == {"42", "-7", "2024"}

\* C17: each column of the first data row is typed Integer when its text
\* is an optional minus and one or more digits, otherwise DateTime when the
\* text parses as a date, otherwise String; a text passing both tests is
\* Integer, and every column has exactly one of the three types.
C17_TypePrecedence ==
  \A t \in Tables :
    csvStructure[t].hasColumns =>
      \A c \in ColumnSet :
        LET value == src[t].first[c]
            type == csvStructure[t].types[c]
        IN  /\ type \in {"integer", "datetime", "string"}
            /\ type = "integer" <=> value \in IntegerTexts
            /\ type = "datetime" <=> (value \notin IntegerTexts /\ DateParses(value))
            /\ type = "string" <=> (value \notin IntegerTexts /\ ~DateParses(value))

C17_Witness ==
  \E t \in Tables :
    /\ phase[t] = "stream"
    /\ src[t].first["id"] = "2024"
    /\ DateParses(src[t].first["id"])
    /\ csvStructure[t].types["id"] = "integer"
    /\ src[t].first["ts"] = "-"
    /\ csvStructure[t].types["ts"] = "string"

C19_LoadsAreIndependent ==
  \A t \in Tables :
    /\ rowCount[t] = pos[t]
    /\ \A i \in 1..Len(batch[t]) : batch[t][i].tbl = t
    /\ \A k \in 1..Len(inserts[t]) :
         \A i \in 1..Len(inserts[t][k].rows) : inserts[t][k].rows[i].tbl = t
    /\ \A i \in 1..Len(db[t].rows) : db[t].rows[i].tbl = t

C19_Witness ==
  /\ phase["customers"] = "stream"
  /\ ~ended["customers"]
  /\ pos["customers"] > 0
  /\ batch["customers"] # <<>>
  /\ InFlight("customers")
  /\ ended["organizations"]
  /\ inserts["organizations"] # <<>>
  /\ rowCount["organizations"] = 1

\* C15: when dataStream reports an error during the insert pass, the load
\* goes on to let its in-flight inserts resolve and then reports a partial
\* result that carries the source error; no row is accepted and no batch
\* submitted after the error.
C15_SourceErrorReported ==
  \A t \in Tables :
    (phase[t] = "stream" /\ uncaught = t) =>
      /\ Alive
      /\ AllSettled(t) => error[t] = "SourceReadError"
====
